---------------------------- MODULE Spec2Model ----------------------------
(***************************************************************************)
(* A model of the grass field of three-js-grass (src/src/utils/grass.js    *)
(* and its host src/src/main.js).                                          *)
(*                                                                         *)
(* grass.js holds two createGrassMesh functions: the full one (lines       *)
(* 3-344: per-blade height, stiffness and phase, gusts, a triangle fan)    *)
(* and the simplified one (lines 347-582: a two-row strip index list, four *)
(* wind parameters).  The variable `variant` says which one built the      *)
(* field.                                                                  *)
(*                                                                         *)
(* Numbers.  JavaScript and GLSL floats are modelled in fixed point: the   *)
(* integer n stands for n / Scale.  Math.random() is a nondeterministic    *)
(* choice from RandomOutcomes, a grid of [0, 1) holding both ends.         *)
(***************************************************************************)
EXTENDS Integers, Sequences, FiniteSets, TLC

(***************************************************************************)
(* Bounds of the model.                                                    *)
(***************************************************************************)
\* updateWind is tried with every options object that omits at most
\* MaxOmitted of the eight wind parameters (and with the two below).
MaxOmitted == 1
\* Draws counted between two updates.
MaxDraws == 2
\* The blade builder is tried with every vertex count from -1 to MaxVerts.
MaxVerts == 5
\* createGrassMesh is tried with every instance count from -1 to MaxBlades.
MaxBlades == 2
\* The host runs at most MaxFrames animation frames
MaxFrames == 2
\* and receives at most MaxEvents GUI events.
MaxEvents == 2

(***************************************************************************)
(* Fixed point                                                             *)
(***************************************************************************)
Scale == 1000

Mul(a, b) == (a * b) \div Scale

Abs(a) == IF a < 0 THEN 0 - a ELSE a

\* Math.random(): an outcome in [0, 1).
RandomOutcomes == {0, Scale - 1}

\* Math.PI and 2 * Math.PI, in units of 1 / Scale.
PI == 3142
TwoPI == 6283

\* Math.sin and GLSL sin, by Bhaskara's rational approximation (within
\* 0.002 of the sine), after reduction of the angle to [0, 2 pi).
HalfWave(y) ==
    LET n == (4 * y * (PI - y)) \div Scale
        d == ((5 * PI * PI) \div Scale) - n
    IN (4 * n * Scale) \div d

Sin(x) ==
    LET y == x % TwoPI
    IN IF y <= PI THEN HalfWave(y) ELSE 0 - HalfWave(y - PI)

Cos(x) == Sin(x + (PI \div 2))

(***************************************************************************)
(* GLSL floats: a number, an infinity (v is its sign) or a NaN.            *)
(***************************************************************************)
Num(x) == [k |-> "num", v |-> x]

NaN == [k |-> "nan", v |-> 0]

Inf(sign) == [k |-> "inf", v |-> sign]

Sign(x) == IF x < 0 THEN 0 - 1 ELSE 1

IsNaN(a) == a.k = "nan"

IsZero(a) == a.k = "num" /\ a.v = 0

FMul(a, b) ==
    CASE a.k = "nan" \/ b.k = "nan" -> NaN
      [] a.k = "num" /\ b.k = "num" -> Num(Mul(a.v, b.v))
      [] IsZero(a) \/ IsZero(b) -> NaN
      [] OTHER -> Inf(Sign(a.v) * Sign(b.v))

FDiv(a, b) ==
    CASE a.k = "nan" \/ b.k = "nan" -> NaN
      [] a.k = "inf" /\ b.k = "inf" -> NaN
      [] b.k = "inf" -> Num(0)
      [] a.k = "inf" -> Inf(a.v * Sign(b.v))
      [] b.v = 0 -> IF a.v = 0 THEN NaN ELSE Inf(Sign(a.v))
      [] OTHER -> Num((a.v * Scale) \div b.v)

FAbs(a) == IF a.k = "nan" THEN NaN ELSE [a EXCEPT !.v = Abs(a.v)]

\* The integer square root, by bisection of lo .. hi.
RECURSIVE Bisect(_, _, _)
Bisect(n, lo, hi) ==
    IF lo >= hi THEN lo
    ELSE LET mid == (lo + hi + 1) \div 2
         IN IF mid * mid <= n THEN Bisect(n, mid, hi) ELSE Bisect(n, lo, mid - 1)

ISqrt(n) == Bisect(n, 0, 46340)

\* sqrt of a fixed-point number.
Sqrt(x) == ISqrt(x * Scale)

\* pow(x, 2.0) and pow(x, 1.5); GLSL leaves pow undefined for x < 0.
Pow2(a) ==
    CASE a.k = "nan" -> NaN
      [] a.k = "inf" -> IF a.v > 0 THEN a ELSE NaN
      [] a.v < 0 -> NaN
      [] OTHER -> Num(Mul(a.v, a.v))

Pow15(a) ==
    CASE a.k = "nan" -> NaN
      [] a.k = "inf" -> IF a.v > 0 THEN a ELSE NaN
      [] a.v < 0 -> NaN
      [] OTHER -> Num(Mul(a.v, Sqrt(a.v)))

\* What normalize() of a zero-length vector gives: GLSL leaves it
\* undefined; a GPU yields NaN (0 * inversesqrt(0)) or zero components.
ZeroNormalizeOutcomes == {"nan", "zero"}

\* normalize(d) of a vector of three numbers (grass.js 228, 512).
Normalize(d, outcome) ==
    LET len == ISqrt((d[1] * d[1]) + (d[2] * d[2]) + (d[3] * d[3]))
    IN IF len = 0
       THEN IF outcome = "nan" THEN <<NaN, NaN, NaN>> ELSE <<Num(0), Num(0), Num(0)>>
       ELSE <<Num((d[1] * Scale) \div len), Num((d[2] * Scale) \div len),
              Num((d[3] * Scale) \div len)>>

(***************************************************************************)
(* Typed arrays.  new Float32Array(n) and new Uint32Array(n) raise a       *)
(* RangeError for a negative length; an array of length n is a function on *)
(* 0 .. n-1 filled with zeros, and a write outside it is ignored.          *)
(***************************************************************************)
InvalidLength(n) == n < 0

TypedArray(n) == [i \in 0 .. (n - 1) |-> 0]

Length(a) == Cardinality(DOMAIN a)

Store(a, i, x) == IF i \in DOMAIN a THEN [a EXCEPT ![i] = x] ELSE a

(***************************************************************************)
(* Options objects.  An options object is a function from the keys it      *)
(* holds to their values; destructuring `{k = d} = options` reads          *)
(* options[k] when the key is there and the default d when it is not.      *)
(***************************************************************************)
NoOptions == [k \in {} |-> 0]

Destructure(options, k, d) == IF k \in DOMAIN options THEN options[k] ELSE d

Variants == {"full", "simplified"}

\* createGrassMesh's defaults, full variant (grass.js 5-23) and simplified
\* variant (grass.js 349-361).
DefaultOptions(v) ==
    IF v = "full"
    THEN [bladeHeight |-> 15000, bladeHeightVariation |-> 400,
          bladeWidth |-> 500, grassBlades |-> 100000, grassPatchSize |-> 200000,
          windSpeed |-> 3000,
          windDirectionX |-> 1000, windDirectionY |-> 0, windDirectionZ |-> 1000,
          windIntensity |-> 1400, windTurbulence |-> 700,
          verticesPerBlade |-> 3,
          windGustFrequency |-> 150, windGustIntensity |-> 350,
          microMovement |-> 200, wavePropagation |-> 50]
    ELSE [bladeHeight |-> 15000, bladeWidth |-> 100,
          grassBlades |-> 500000, grassPatchSize |-> 200000,
          windSpeed |-> 3000,
          windDirectionX |-> 1000, windDirectionY |-> 0, windDirectionZ |-> 1000,
          windIntensity |-> 500, windTurbulence |-> 700,
          verticesPerBlade |-> 3]

\* The destructured options of createGrassMesh: every key of the defaults,
\* taken from the caller's object when it holds it.
BuildValues(v, options) ==
    [k \in DOMAIN DefaultOptions(v) |-> Destructure(options, k, DefaultOptions(v)[k])]

\* The wind options a caller of createGrassMesh passes: none (App.loadStage),
\* or values changed in the GUI before a rebuild (App.recreateGrass).
BuildWindOptions ==
    { NoOptions,
      [windSpeed |-> 4500, windIntensity |-> 1000, windTurbulence |-> 900,
       windDirectionX |-> 0, windDirectionY |-> 0, windDirectionZ |-> 1000,
       windGustFrequency |-> 300, windGustIntensity |-> 500,
       microMovement |-> 400, wavePropagation |-> 80] }

\* The uniforms of the ShaderMaterial as createGrassMesh creates them
\* (grass.js 105-121 and 413-424); b is BuildValues(v, options).
InitialUniforms(v, b) ==
    LET common == [uTime |-> 0,
                   uWindSpeed |-> b.windSpeed,
                   uWindDirection |-> <<b.windDirectionX, b.windDirectionY, b.windDirectionZ>>,
                   uWindNoiseFactor |-> Scale,
                   uWindTurbulence |-> b.windTurbulence,
                   uWindIntensity |-> b.windIntensity,
                   uBladeHeight |-> b.bladeHeight,
                   uBladeWidth |-> b.bladeWidth]
    IN IF v = "full"
       THEN [uTime |-> common.uTime, uWindSpeed |-> common.uWindSpeed,
             uWindDirection |-> common.uWindDirection,
             uWindNoiseFactor |-> common.uWindNoiseFactor,
             uWindTurbulence |-> common.uWindTurbulence,
             uWindIntensity |-> common.uWindIntensity,
             uBladeHeight |-> common.uBladeHeight,
             uBladeWidth |-> common.uBladeWidth,
             uGustFrequency |-> b.windGustFrequency,
             uGustIntensity |-> b.windGustIntensity,
             uMicroMovement |-> b.microMovement,
             uWavePropagation |-> b.wavePropagation]
       ELSE common

(***************************************************************************)
(* The blade geometry builder                                              *)
(***************************************************************************)
\* actualBladeHeight (grass.js 30) and an instance's height (grass.js 76):
\* base * (1 - variation/2 + Math.random() * variation).
VariedHeight(base, variation, r) ==
    Mul(base, (Scale - (variation \div 2)) + Mul(r, variation))

\* The blade height the vertices are built from: randomized in the full
\* variant (grass.js 30), the given height in the simplified one.
ActualBladeHeight(v, base, variation, r) ==
    IF v = "full" THEN VariedHeight(base, variation, r) ELSE base

\* The share of the height by which the blade bows out (grass.js 48, 379).
CurveShare(v) == IF v = "full" THEN 250 ELSE 200

\* One pass of the loop over the middle vertices (grass.js 45-53, 377-384),
\* from vertex i on; jitter[i] holds the two outcomes of Math.random().
RECURSIVE MiddleVertices(_, _, _, _, _, _, _)
MiddleVertices(v, a, i, verticesCount, height, bladeWidth, jitter) ==
    IF i >= verticesCount - 1 THEN a
    ELSE LET t == (i * Scale) \div (verticesCount - 1)
             curveFactor == Mul(Mul(Sin(Mul(PI, t)), height), CurveShare(v))
             x == Mul(Mul(jitter[i][1] - (Scale \div 2), bladeWidth),
                      Scale - (Abs(t - (Scale \div 2)) * 2))
             y == Mul(t, height) + curveFactor
             z == Mul(jitter[i][2] - (Scale \div 2), 50)
             b == Store(Store(Store(a, i * 3, x), (i * 3) + 1, y), (i * 3) + 2, z)
         IN MiddleVertices(v, b, i + 1, verticesCount, height, bladeWidth, jitter)

\* generateBladeVertices (grass.js 28-56, 366-387): the position buffer,
\* three numbers a vertex, or a RangeError.
GenerateBladeVertices(v, baseBladeHeight, variation, bladeWidth, verticesCount, r, jitter) ==
    IF InvalidLength(verticesCount * 3) THEN [threw |-> TRUE, array |-> TypedArray(0)]
    ELSE LET height == ActualBladeHeight(v, baseBladeHeight, variation, r)
             a0 == TypedArray(verticesCount * 3)
             a1 == Store(Store(Store(a0, 0, 0 - (bladeWidth \div 2)), 1, 0), 2, 0)
             last == (verticesCount - 1) * 3
             a2 == Store(Store(Store(a1, last, bladeWidth \div 2), last + 1, height),
                         last + 2, 0)
         IN [threw |-> FALSE,
             array |-> MiddleVertices(v, a2, 1, verticesCount, height, bladeWidth, jitter)]

\* A fan that slides its first vertex along the blade: (i, i+1, i+2).
FanIndexSliding(j) == (j \div 3) + (j % 3)

\* The index written at place j of the triangle fan (grass.js 61-65).
FanIndex(j) ==
    LET i == j \div 3
    IN CASE j % 3 = 0 -> 0
         [] j % 3 = 1 -> i + 1
         [] OTHER -> i + 2

\* The index written at place j of the two-row strip (grass.js 392-400).
StripIndex(verticesCount, j) ==
    LET i == j \div 6
    IN CASE j % 6 = 0 -> i
         [] j % 6 = 1 -> i + 1
         [] j % 6 = 2 -> verticesCount + i
         [] j % 6 = 3 -> i
         [] j % 6 = 4 -> verticesCount + i
         [] OTHER -> verticesCount + i + 1

\* The length of the index buffer (grass.js 59, 390).
IndexCount(v, verticesCount) ==
    IF v = "full" THEN (verticesCount - 2) * 3 ELSE (verticesCount - 1) * 6

\* generateBladeIndices (grass.js 58-68, 389-403): the index buffer, or a
\* RangeError.
GenerateBladeIndices(v, verticesCount) ==
    IF InvalidLength(IndexCount(v, verticesCount))
    THEN [threw |-> TRUE, array |-> TypedArray(0)]
    ELSE [threw |-> FALSE,
          array |-> [j \in 0 .. (IndexCount(v, verticesCount) - 1) |->
                        IF v = "full" THEN FanIndex(j) ELSE StripIndex(verticesCount, j)]]

\* The outcomes of Math.random() in the loop over the middle vertices.
Jitters(verticesCount) ==
    [1 .. (verticesCount - 2) -> RandomOutcomes \X RandomOutcomes]

\* The blade configurations the builder is tried with.
BladeHeights == {5000, 15000, 25000}
BladeHeightVariations == {0, 400, 999}
BladeWidths == {500}
VertexCounts == (0 - 1) .. MaxVerts

(***************************************************************************)
(* The wind animation model: main() of the vertex shader (grass.js         *)
(* 205-277, 499-527), for one vertex of one instance.  snoise (grass.js    *)
(* 147-203, 441-497) is not computed: its three samples are any of         *)
(* NoiseOutcomes, values of its range [-1, 1].                             *)
(***************************************************************************)
NoiseOutcomes == {0 - Scale, 0, Scale}

\* heightFactor (grass.js 219-225, 510).  The full variant scales the
\* vertex's y by aBladeHeight / uBladeHeight and divides by aBladeHeight;
\* the simplified one divides y by uBladeHeight.
ScaledY(v, y, aBladeHeight, uBladeHeight) ==
    IF v = "full"
    THEN FMul(Num(y), FDiv(Num(aBladeHeight), Num(uBladeHeight)))
    ELSE Num(y)

HeightFactor(v, y, aBladeHeight, uBladeHeight) ==
    IF v = "full"
    THEN Pow2(FDiv(ScaledY(v, y, aBladeHeight, uBladeHeight), Num(aBladeHeight)))
    ELSE Pow15(FDiv(Num(y), Num(uBladeHeight)))

\* windIntensity before the stiffness is applied (grass.js 230-256,
\* 513-516); p is the instance's position, n the three noise samples.
WindSignal(v, u, p, phase, n) ==
    LET windTime == Mul(u.uTime, u.uWindSpeed)
    IN IF v = "full"
       THEN LET spatialWave ==
                    Mul(Sin(Mul(p[1], u.uWavePropagation) + Mul(p[3], u.uWavePropagation)
                            + Mul(windTime, 500)), 500) + 500
                gustBase == Mul(Sin(Mul(windTime, u.uGustFrequency)), 500) + 500
                gust == Mul(Mul(Mul(gustBase, gustBase), gustBase), u.uGustIntensity)
                individualPhase == Mul(Sin(Mul(windTime, 700) + phase), u.uMicroMovement)
                sum == Mul(Sin(windTime + Mul(n[1], 2000) + Mul(p[1], 10)), 500)
                       + Mul(Cos(Mul(windTime, 500) + Mul(n[2], 2000) + Mul(p[3], 10)), 300)
                       + Mul(Sin(Mul(windTime, 200) + n[3]), 200)
                       + gust
                       + Mul(spatialWave, 300)
                       + individualPhase
            IN Mul(Mul(sum, u.uWindTurbulence), u.uWindIntensity)
       ELSE LET sum == Mul(Sin(windTime + Mul(n[1], 2000)), 700)
                       + Mul(Cos(Mul(windTime, 1500) + Mul(n[2], 2000)), 500)
            IN Mul(Mul(sum, u.uWindTurbulence), u.uWindIntensity)

\* windIntensity *= aStiffness: the stiffness as a direct multiplier.
ApplyStiffnessDirect(signal, aStiffness) == FMul(signal, Num(aStiffness))

\* windIntensity *= (1.0 / aStiffness) (grass.js 259).
ApplyStiffness(signal, aStiffness) == FMul(signal, FDiv(Num(Scale), Num(aStiffness)))

\* main(): what the wind adds to the vertex's world position, with the
\* height factor and the sway it computed on the way.  `input` holds the
\* vertex (position), the instance (instancePos, aBladeHeight, aStiffness,
\* aPhaseOffset) and the uniforms (u).
VertexShader(v, input, n, outcome) ==
    LET u == input.u
        scaledY == ScaledY(v, input.position[2], input.aBladeHeight, u.uBladeHeight)
        heightFactor == HeightFactor(v, input.position[2], input.aBladeHeight, u.uBladeHeight)
        windVector == Normalize(u.uWindDirection, outcome)
        signal == Num(WindSignal(v, u, input.instancePos, input.aPhaseOffset, n))
        windIntensity ==
            IF v = "full" THEN ApplyStiffness(signal, input.aStiffness)
            ELSE signal
        sway == FMul(FMul(windIntensity, heightFactor),
                     Num(Scale + Mul(u.uWindNoiseFactor, n[1] + n[2])))
    IN [heightFactor |-> heightFactor,
        sway |-> sway,
        dx |-> FMul(FMul(windVector[1], sway), Num(2000)),
        dy |-> IF v = "full" THEN FMul(FMul(FAbs(sway), Num(100)), scaledY) ELSE Num(0),
        dz |-> FMul(FMul(windVector[3], sway), Num(2000))]

\* The wind directions, vertices and instances the shader is run on.
WindDirections == {<<1000, 0, 1000>>, <<0, 0, 0>>, <<0, 0, 1000>>, <<3000, 0, 4000>>}

ShaderVertices == {<<0 - 250, 0, 0>>, <<100, 11250, 25>>, <<250, 15000, 0>>}

\* The two ends of the stiffness range (grass.js 77-78).
StiffnessEnds == {700, 1300}

OtherStiffness(st) == IF st = 700 THEN 1300 ELSE 700

ShaderInstances ==
    {[instancePos |-> p, aBladeHeight |-> h, aStiffness |-> st, aPhaseOffset |-> ph] :
        p \in {<<0, 0, 0>>, <<0 - 100000, 0, 99800>>},
        h \in {0, 12000, 18000}, st \in StiffnessEnds, ph \in {0, 3138}}

\* The WindStates the shader is run on: the uniforms of a field built with
\* the defaults, after an update that set these.
ShaderUniforms(v) ==
    {[InitialUniforms(v, BuildValues(v, NoOptions)) EXCEPT
          !.uTime = t, !.uWindDirection = d, !.uWindIntensity = i,
          !.uWindNoiseFactor = f] :
        t \in {0, 2000}, d \in WindDirections, i \in {0, 1400},
        f \in {Scale \div 2, Scale}}

\* The inputs of a field built with bladeHeight 0, which createGrassMesh
\* accepts: uBladeHeight is 0 (grass.js 106), every instance's height is
\* bladeHeight * (...) = 0 (grass.js 76) and every vertex of the blade has
\* y = 0 (grass.js 39-41, 52).
ZeroHeightOptions == [bladeHeight |-> 0]

ZeroHeightVertices == {<<0 - 250, 0, 0>>, <<250, 0, 0>>}

ZeroHeightInstances == {i \in ShaderInstances : i.aBladeHeight = 0}

ZeroHeightUniforms(v) ==
    {[InitialUniforms(v, BuildValues(v, ZeroHeightOptions)) EXCEPT
          !.uTime = t, !.uWindIntensity = i] :
        t \in {0, 2000}, i \in {0, 1400}}

(***************************************************************************)
(* updateWind                                                              *)
(***************************************************************************)
\* The eight wind parameters of updateWind's options (grass.js 315-325).
WindKeys == {"windSpeed", "windDirection", "windIntensity", "windTurbulence",
             "gustFrequency", "gustIntensity", "microMovement", "wavePropagation"}

\* The uniform each wind parameter is written to (grass.js 328-337).
UniformOf(k) ==
    CASE k = "windSpeed" -> "uWindSpeed"
      [] k = "windDirection" -> "uWindDirection"
      [] k = "windIntensity" -> "uWindIntensity"
      [] k = "windTurbulence" -> "uWindTurbulence"
      [] k = "gustFrequency" -> "uGustFrequency"
      [] k = "gustIntensity" -> "uGustIntensity"
      [] k = "microMovement" -> "uMicroMovement"
      [] k = "wavePropagation" -> "uWavePropagation"

\* The parameters the variant's updateWind destructures.
KeysRead(v) ==
    IF v = "full" THEN WindKeys
    ELSE {"windSpeed", "windDirection", "windIntensity", "windTurbulence"}

\* The value a caller supplies for a wind parameter.
Supplied ==
    [windSpeed |-> 5000, windDirection |-> <<0, 0, 1000>>,
     windIntensity |-> 2000, windTurbulence |-> 1500,
     gustFrequency |-> 400, gustIntensity |-> 600,
     microMovement |-> 300, wavePropagation |-> 100]

\* The options objects updateWind is called with.
OptionSets ==
    {s \in SUBSET WindKeys : Cardinality(WindKeys \ s) <= MaxOmitted}
        \cup {{}, {"windSpeed"}}

WindOptions == {[k \in s |-> Supplied[k]] : s \in OptionSets}

\* The elapsed times updateWind is called with.
Times == {1000, 2000}

\* `const {microMovement = microMovement, wavePropagation = wavePropagation}`
\* (grass.js 323-324): the default reads the binding being declared, which
\* is in its temporal dead zone, so a missing key raises a ReferenceError
\* before any uniform is written.
UpdateWindThrows(v, options) ==
    /\ v = "full"
    /\ \/ "microMovement" \notin DOMAIN options
       \/ "wavePropagation" \notin DOMAIN options

\* The destructuring defaults of updateWind (grass.js 315-325, 565-570);
\* c holds the build-time values the closure captured.
UpdateDefault(v, c, k) ==
    IF v = "full"
    THEN CASE k = "windSpeed" -> 3000
           [] k = "windDirection" -> <<1000, 0, 1000>>
           [] k = "windIntensity" -> 500
           [] k = "windTurbulence" -> 700
           [] k = "gustFrequency" -> c.windGustFrequency
           [] k = "gustIntensity" -> c.windGustIntensity
           [] OTHER -> 0
    ELSE CASE k = "windSpeed" -> 5500
           [] k = "windDirection" -> <<1000, 0, 1000>>
           [] k = "windIntensity" -> 1000
           [] k = "windTurbulence" -> 800
           [] OTHER -> 0

\* A noise factor that forgets to halve the random outcome.
NoiseFactorWide(r) == (Scale \div 2) + r

\* uWindNoiseFactor = 0.5 + Math.random() * 0.5 (grass.js 340, 578).
NoiseFactor(r) == (Scale \div 2) + Mul(r, Scale \div 2)

\* The uniforms after updateWind(time, options) returned (grass.js 327-340,
\* 572-578); r is the outcome of Math.random().
UpdatedUniforms(v, c, u, time, options, r) ==
    LET Value(k) == Destructure(options, k, UpdateDefault(v, c, k))
    IN IF v = "full"
       THEN [u EXCEPT !.uTime = time,
                      !.uWindSpeed = Value("windSpeed"),
                      !.uWindDirection = Value("windDirection"),
                      !.uWindIntensity = Value("windIntensity"),
                      !.uWindTurbulence = Value("windTurbulence"),
                      !.uGustFrequency = Value("gustFrequency"),
                      !.uGustIntensity = Value("gustIntensity"),
                      !.uMicroMovement = Value("microMovement"),
                      !.uWavePropagation = Value("wavePropagation"),
                      !.uWindNoiseFactor = NoiseFactor(r)]
       ELSE [u EXCEPT !.uTime = time,
                      !.uWindSpeed = Value("windSpeed"),
                      !.uWindDirection = Value("windDirection"),
                      !.uWindIntensity = Value("windIntensity"),
                      !.uWindTurbulence = Value("windTurbulence"),
                      !.uWindNoiseFactor = NoiseFactor(r)]

(***************************************************************************)
(* The instance attribute packer: the three loops over the instances of    *)
(* createGrassMesh.                                                        *)
(***************************************************************************)
\* A stiffness that forgets the offset of 0.7.
StiffnessUnshifted(r) == Mul(r, 1300)

\* bladeStiffness[i] = 0.7 + Math.random() * 0.6 (grass.js 78).
Stiffness(r) == 700 + Mul(r, 600)

\* instancePhaseOffsets[i] = Math.random() * Math.PI * 2 (grass.js 97).
PhaseOffset(r) == Mul(r, PI) * 2

\* x and z of an instance: (Math.random() - 0.5) * grassPatchSize
\* (grass.js 296-297, 546-547).
PatchCoordinate(r, grassPatchSize) == Mul(r - (Scale \div 2), grassPatchSize)

\* The instance counts the loops run over: i = 0 .. grassBlades - 1.
Instances(grassBlades) == 0 .. (grassBlades - 1)

\* The outcomes of Math.random() in one loop over the instances, two a pass.
Draws2(grassBlades) == [Instances(grassBlades) -> RandomOutcomes \X RandomOutcomes]

\* The outcomes of Math.random() in one loop over the instances, one a pass.
Draws1(grassBlades) == [Instances(grassBlades) -> RandomOutcomes]

\* verticesPerBlade as createGrassMesh defaults it (grass.js 18, 361).
DefaultVerticesPerBlade == 3

\* The options createGrassMesh is called with in the build specification.
BuildOptions ==
    {[grassBlades |-> n, verticesPerBlade |-> c, grassPatchSize |-> p] :
        n \in (0 - 1) .. MaxBlades,
        c \in (0 - 1) .. DefaultVerticesPerBlade,
        p \in {200000, 50000}}

VARIABLES
    variant,      \* which createGrassMesh built the field
    closure,      \* the build values updateWind's closure captured
    uniforms,     \* grassMaterial.uniforms: the WindState
    call,         \* the latest updateWind call: its arguments, whether it threw,
                  \* and whether a call had returned before it
    draws,        \* draws since the latest updateWind call (or since the build)
    blade,        \* the blade builder: its arguments, its place, its buffers
    build,        \* createGrassMesh: its place, its options, what it has built
    shader,       \* one run of the vertex shader: its inputs and what it computed
    host          \* the App of main.js: its fields, its scene, its frame loop

vars == <<variant, closure, uniforms, call, draws, blade, build, shader, host>>

fieldVars == <<closure, uniforms, call, draws>>

NoCall == [made |-> FALSE, time |-> 0, options |-> NoOptions, threw |-> FALSE,
           earlier |-> FALSE]

\* Whether an updateWind call has returned so far.
ReturnedBefore == call.made /\ (~call.threw \/ call.earlier)

NoBlade == [pc |-> "none"]

NoBuild == [pc |-> "none"]

NoShader == [pc |-> "none"]

NoHost == [pc |-> "none"]

(***************************************************************************)
(* Spec: a built field, updated and drawn.                                 *)
(***************************************************************************)
\* A field as createGrassMesh returns it.
Init ==
    /\ variant \in Variants
    /\ host = NoHost
    /\ \E o \in BuildWindOptions :
          /\ closure = BuildValues(variant, o)
          /\ uniforms = InitialUniforms(variant, BuildValues(variant, o))
    /\ call = NoCall
    /\ draws = 0
    /\ blade = NoBlade
    /\ build = NoBuild
    /\ shader = NoShader

\* An updateWind that forgets to write uWindTurbulence (grass.js 331).
UpdateWindKeepsTurbulence ==
    \E time \in Times, options \in WindOptions, r \in RandomOutcomes :
        /\ ~UpdateWindThrows(variant, options)
        /\ uniforms' =
              [UpdatedUniforms(variant, closure, uniforms, time, options, r)
                  EXCEPT !.uWindTurbulence = uniforms.uWindTurbulence]
        /\ call' = [made |-> TRUE, time |-> time, options |-> options, threw |-> FALSE,
                    earlier |-> ReturnedBefore]
        /\ draws' = 0
        /\ UNCHANGED <<variant, host, closure, blade, build, shader>>

\* instancedMesh.updateWind(time, options), a call that returns.
UpdateWind ==
    \E time \in Times, options \in WindOptions, r \in RandomOutcomes :
        /\ ~UpdateWindThrows(variant, options)
        /\ uniforms' = UpdatedUniforms(variant, closure, uniforms, time, options, r)
        /\ call' = [made |-> TRUE, time |-> time, options |-> options, threw |-> FALSE,
                    earlier |-> ReturnedBefore]
        /\ draws' = 0
        /\ UNCHANGED <<variant, host, closure, blade, build, shader>>

\* instancedMesh.updateWind(time, options), a call that throws.
UpdateWindError ==
    \E time \in Times, options \in WindOptions :
        /\ UpdateWindThrows(variant, options)
        /\ call' = [made |-> TRUE, time |-> time, options |-> options, threw |-> TRUE,
                    earlier |-> ReturnedBefore]
        /\ draws' = 0
        /\ UNCHANGED <<variant, host, closure, uniforms, blade, build, shader>>

\* renderer.render(scene, camera): the shader reads the uniforms.
Draw ==
    /\ draws < MaxDraws
    /\ draws' = draws + 1
    /\ UNCHANGED <<variant, host, closure, uniforms, call, blade, build, shader>>

Next == UpdateWind \/ UpdateWindError \/ Draw

Spec == Init /\ [][Next]_vars

(***************************************************************************)
(* SpecBlade: the blade geometry builder on its own, as createGrassMesh    *)
(* calls it (grass.js 81-82, 405-406).                                     *)
(***************************************************************************)
InitBlade ==
    /\ variant \in Variants
    /\ host = NoHost
    /\ \E h \in BladeHeights, w \in BladeWidths, c \in VertexCounts,
          bv \in BladeHeightVariations :
          blade = [pc |-> "start", height |-> h,
                   variation |-> IF variant = "full" THEN bv ELSE 0,
                   width |-> w, verticesCount |-> c,
                   vertices |-> TypedArray(0), indices |-> TypedArray(0)]
    /\ closure = NoOptions /\ uniforms = NoOptions /\ call = NoCall /\ draws = 0
    /\ build = NoBuild
    /\ shader = NoShader

\* const vertices = generateBladeVertices(bladeHeight, bladeWidth, verticesPerBlade)
BladeVertices ==
    /\ blade.pc = "start"
    /\ \E r \in RandomOutcomes, jitter \in Jitters(blade.verticesCount) :
          LET g == GenerateBladeVertices(variant, blade.height, blade.variation,
                                         blade.width, blade.verticesCount, r, jitter)
          IN blade' = [blade EXCEPT !.pc = IF g.threw THEN "threw" ELSE "vertices",
                                    !.vertices = g.array]
    /\ UNCHANGED <<variant, host, fieldVars, build, shader>>

\* const indices = generateBladeIndices(verticesPerBlade)
BladeIndices ==
    /\ blade.pc = "vertices"
    /\ LET g == GenerateBladeIndices(variant, blade.verticesCount)
       IN blade' = [blade EXCEPT !.pc = IF g.threw THEN "threw" ELSE "done",
                                 !.indices = g.array]
    /\ UNCHANGED <<variant, host, fieldVars, build, shader>>

NextBlade == BladeVertices \/ BladeIndices

SpecBlade == InitBlade /\ [][NextBlade]_vars

(***************************************************************************)
(* SpecBuild: createGrassMesh(options), step by step.  The full variant    *)
(* runs grass.js 71-79 (heights), 81-86 (geometry), 89-102 (attributes),   *)
(* 104-287 (material), 289-343 (matrices, return); the simplified variant  *)
(* runs 405-410 (geometry), 412-537 (material), 539-581 (matrices,         *)
(* return).  A RangeError leaves createGrassMesh at once: pc = "threw",    *)
(* and no field is returned.  The rotation of an instance's matrix is left *)
(* out; its position is kept.                                              *)
(***************************************************************************)
InitBuild ==
    /\ variant \in Variants
    /\ host = NoHost
    /\ \E o \in BuildOptions :
          build = [pc |-> IF variant = "full" THEN "heights" ELSE "geometry",
                   values |-> BuildValues(variant, o),
                   bladeHeights |-> TypedArray(0), bladeStiffness |-> TypedArray(0),
                   vertices |-> TypedArray(0), indices |-> TypedArray(0),
                   instanceBladeHeights |-> TypedArray(0),
                   instanceBladeStiffness |-> TypedArray(0),
                   instancePhaseOffsets |-> TypedArray(0),
                   positions |-> TypedArray(0),
                   count |-> 0]
    /\ closure = NoOptions /\ uniforms = NoOptions /\ call = NoCall /\ draws = 0
    /\ blade = NoBlade
    /\ shader = NoShader

\* grass.js 71-79: the arrays of heights and stiffness, and the loop that
\* fills them.
BuildHeights ==
    /\ build.pc = "heights"
    /\ LET n == build.values.grassBlades
       IN IF InvalidLength(n)
          THEN build' = [build EXCEPT !.pc = "threw"]
          ELSE \E rs \in Draws2(n) :
                  build' = [build EXCEPT
                      !.pc = "geometry",
                      !.bladeHeights =
                          [i \in Instances(n) |->
                              VariedHeight(build.values.bladeHeight,
                                           build.values.bladeHeightVariation, rs[i][1])],
                      !.bladeStiffness = [i \in Instances(n) |-> Stiffness(rs[i][2])]]
    /\ UNCHANGED <<variant, host, fieldVars, blade, shader>>

\* grass.js 81-86 and 405-410: the blade's vertices and indices.
BuildGeometry ==
    /\ build.pc = "geometry"
    /\ \E r \in RandomOutcomes, jitter \in Jitters(build.values.verticesPerBlade) :
          LET b == build.values
              variation == IF variant = "full" THEN b.bladeHeightVariation ELSE 0
              gv == GenerateBladeVertices(variant, b.bladeHeight, variation,
                                          b.bladeWidth, b.verticesPerBlade, r, jitter)
              gi == GenerateBladeIndices(variant, b.verticesPerBlade)
          IN IF gv.threw \/ gi.threw
             THEN build' = [build EXCEPT !.pc = "threw"]
             ELSE build' = [build EXCEPT
                      !.pc = IF variant = "full" THEN "attributes" ELSE "material",
                      !.vertices = gv.array,
                      !.indices = gi.array]
    /\ UNCHANGED <<variant, host, fieldVars, blade, shader>>

\* grass.js 89-102: the instanced attributes; heights and stiffness are
\* copied, the phase offsets drawn.
BuildAttributes ==
    /\ build.pc = "attributes"
    /\ LET n == build.values.grassBlades
       IN \E rs \in Draws1(n) :
             build' = [build EXCEPT
                 !.pc = "material",
                 !.instanceBladeHeights = [i \in Instances(n) |-> build.bladeHeights[i]],
                 !.instanceBladeStiffness = [i \in Instances(n) |-> build.bladeStiffness[i]],
                 !.instancePhaseOffsets = [i \in Instances(n) |-> PhaseOffset(rs[i])]]
    /\ UNCHANGED <<variant, host, fieldVars, blade, shader>>

\* grass.js 104-287 and 412-537: the ShaderMaterial and its uniforms.
BuildMaterial ==
    /\ build.pc = "material"
    /\ build' = [build EXCEPT !.pc = "matrices"]
    /\ uniforms' = InitialUniforms(variant, build.values)
    /\ closure' = build.values
    /\ UNCHANGED <<variant, host, call, draws, blade, shader>>

\* grass.js 289-343 and 539-581: the InstancedMesh, the instance matrices,
\* updateWind, and the return of the mesh.
BuildMatrices ==
    /\ build.pc = "matrices"
    /\ LET n == build.values.grassBlades
       IN IF InvalidLength(n * 16)
          THEN build' = [build EXCEPT !.pc = "threw"]
          ELSE \E rs \in Draws2(n) :
                  build' = [build EXCEPT
                      !.pc = "done",
                      !.count = n,
                      !.positions =
                          [i \in Instances(n) |->
                              <<PatchCoordinate(rs[i][1], build.values.grassPatchSize),
                                0,
                                PatchCoordinate(rs[i][2], build.values.grassPatchSize)>>]]
    /\ UNCHANGED <<variant, host, fieldVars, blade, shader>>

NextBuild ==
    BuildHeights \/ BuildGeometry \/ BuildAttributes \/ BuildMaterial \/ BuildMatrices

SpecBuild == InitBuild /\ [][NextBuild]_vars

(***************************************************************************)
(* SpecShader: one run of the vertex shader, for a vertex, an instance and *)
(* a WindState drawn from the sets above.                                  *)
(***************************************************************************)
ZeroOutput ==
    [heightFactor |-> Num(0), sway |-> Num(0),
     dx |-> Num(0), dy |-> Num(0), dz |-> Num(0)]

\* The inputs of one run of main(): a vertex and an instance of a field
\* built with the defaults, or of a field built with bladeHeight 0.
ShaderInputs(v) ==
    {[position |-> vertex, instancePos |-> i.instancePos,
      aBladeHeight |-> i.aBladeHeight, aStiffness |-> i.aStiffness,
      aPhaseOffset |-> i.aPhaseOffset, u |-> u] :
        vertex \in ShaderVertices,
        i \in ShaderInstances \ ZeroHeightInstances,
        u \in ShaderUniforms(v)}
    \cup
    {[position |-> vertex, instancePos |-> i.instancePos,
      aBladeHeight |-> i.aBladeHeight, aStiffness |-> i.aStiffness,
      aPhaseOffset |-> i.aPhaseOffset, u |-> u] :
        vertex \in ZeroHeightVertices,
        i \in ZeroHeightInstances,
        u \in ZeroHeightUniforms(v)}

InitShader ==
    /\ variant \in Variants
    /\ host = NoHost
    /\ \E input \in ShaderInputs(variant) :
          shader = [pc |-> "input", input |-> input,
                    n |-> <<0, 0, 0>>, outcome |-> "zero",
                    out |-> ZeroOutput, other |-> ZeroOutput]
    /\ closure = NoOptions /\ uniforms = NoOptions /\ call = NoCall /\ draws = 0
    /\ blade = NoBlade
    /\ build = NoBuild

\* The GPU runs main() for the vertex; n are the three snoise samples and
\* outcome what this GPU's normalize gives for a zero-length vector.
RunVertexShader ==
    /\ shader.pc = "input"
    /\ \E n \in NoiseOutcomes \X NoiseOutcomes \X NoiseOutcomes,
          outcome \in ZeroNormalizeOutcomes :
          shader' = [shader EXCEPT
                        !.pc = "done", !.n = n, !.outcome = outcome,
                        !.out = VertexShader(variant, shader.input, n, outcome)]
    /\ UNCHANGED <<variant, host, fieldVars, blade, build>>

\* The GPU runs main() for the same vertex of an instance that differs
\* only in aStiffness (the other end of the range); snoise and normalize
\* are functions of inputs that did not change, so their values are the
\* same.
RunOtherStiffness ==
    /\ shader.pc = "done"
    /\ shader' = [shader EXCEPT
                     !.pc = "paired",
                     !.other = VertexShader(variant,
                                   [shader.input EXCEPT
                                       !.aStiffness = OtherStiffness(@)],
                                   shader.n, shader.outcome)]
    /\ UNCHANGED <<variant, host, fieldVars, blade, build>>

NextShader == RunVertexShader \/ RunOtherStiffness

SpecShader == InitShader /\ [][NextShader]_vars

(***************************************************************************)
(* SpecHost: the App of main.js.  new App() loads the stage; then the      *)
(* browser runs, one at a time and each to completion, animation frames    *)
(* (App.animate) and GUI events (the dat.GUI handlers of addDatGUI).       *)
(* main.js imports createGrassMesh from utils/grass, which defines it      *)
(* twice: the host runs with either variant.                               *)
(***************************************************************************)
\* this.grassParams as addDatGUI creates it (main.js 87-104).
GrassParams0 ==
    [bladeHeight |-> 15000, bladeHeightVariation |-> 400, bladeWidth |-> 500,
     grassBlades |-> 100000,
     windSpeed |-> 3000, windIntensity |-> 1400, windTurbulence |-> 700,
     windDirectionX |-> 1000, windDirectionY |-> 0, windDirectionZ |-> 1000,
     grassColorBottom |-> 3, grassColorTop |-> 7,
     windGustFrequency |-> 150, windGustIntensity |-> 350,
     microMovement |-> 200, wavePropagation |-> 50]

\* The controls of the 'Blade Parameters' folder (main.js 110-122), of the
\* 'Wind Parameters' folder (main.js 126-135) and of the 'Color Parameters'
\* folder (main.js 138-144), with values of their ranges a user sets.
BladeControls == {"bladeHeight", "bladeHeightVariation", "bladeWidth", "grassBlades"}

WindControls == {"windSpeed", "windIntensity", "windTurbulence"}

ColorControls == {"grassColorBottom", "grassColorTop"}

ControlValues(k) ==
    CASE k = "bladeHeight" -> {25000}
      [] k = "bladeHeightVariation" -> {0}
      [] k = "bladeWidth" -> {50}
      [] k = "grassBlades" -> {50000}
      [] k = "windSpeed" -> {0, 5000}
      [] k = "windIntensity" -> {2000}
      [] k = "windTurbulence" -> {0}
      [] OTHER -> {5}

\* What clock.getElapsedTime() has advanced by since the previous frame.
Ticks == {16, 33}

\* A field as createGrassMesh(options) returns it: the closure's build
\* values and the uniforms, with what the host did to it since: the
\* updateWind calls since it was last drawn, who wrote its WindState last,
\* and whether a frame's update wrote over a GUI handler's.
NewField(v, options) ==
    [closure |-> BuildValues(v, options),
     uniforms |-> InitialUniforms(v, BuildValues(v, options)),
     options |-> options,
     updates |-> 0,
     writer |-> "build",
     overGui |-> FALSE]

\* field.updateWind(time, options) called by `by` (grass.js 314-341); a
\* call that throws leaves the uniforms as they were.
FieldUpdateWind(v, field, time, options, r, by) ==
    IF UpdateWindThrows(v, options)
    THEN [field EXCEPT !.updates = @ + 1]
    ELSE [field EXCEPT
             !.uniforms = UpdatedUniforms(v, field.closure, @, time, options, r),
             !.updates = @ + 1,
             !.writer = by,
             !.overGui = (by = "frame" /\ field.writer = "gui")]

\* An App.updateWind that leaves windDirectionZ out of the direction.
HandlerOptionsFlat(gp) ==
    [windSpeed |-> gp.windSpeed,
     windDirection |-> <<gp.windDirectionX, gp.windDirectionY, 0>>,
     windIntensity |-> gp.windIntensity,
     windTurbulence |-> gp.windTurbulence,
     gustFrequency |-> gp.windGustFrequency,
     gustIntensity |-> gp.windGustIntensity,
     microMovement |-> gp.microMovement,
     wavePropagation |-> gp.wavePropagation]

\* The options object App.updateWind builds (main.js 163-179).
HandlerOptions(gp) ==
    [windSpeed |-> gp.windSpeed,
     windDirection |-> <<gp.windDirectionX, gp.windDirectionY, gp.windDirectionZ>>,
     windIntensity |-> gp.windIntensity,
     windTurbulence |-> gp.windTurbulence,
     gustFrequency |-> gp.windGustFrequency,
     gustIntensity |-> gp.windGustIntensity,
     microMovement |-> gp.microMovement,
     wavePropagation |-> gp.wavePropagation]

\* new App() (main.js 15-27, 225): loadStage creates grassParams, builds a
\* field with createGrassMesh() and adds it to the scene.  Fields are
\* numbered in the order they are built.
InitHost ==
    /\ variant \in Variants
    /\ host = [pc |-> "start",
               grassParams |-> GrassParams0,
               time |-> 0,
               frames |-> 0,
               events |-> 0,
               fields |-> <<NewField(variant, NoOptions)>>,
               grass |-> 1,
               scene |-> {1},
               drawn |-> {},
               drawnTime |-> 0]
    /\ closure = NoOptions /\ uniforms = NoOptions /\ call = NoCall /\ draws = 0
    /\ blade = NoBlade
    /\ build = NoBuild
    /\ shader = NoShader

\* App.recreateGrass (main.js 149-157) with grassParams gp.
RecreateGrass(gp) ==
    LET new == Len(host.fields) + 1
    IN host' = [host EXCEPT
                   !.grassParams = gp,
                   !.events = @ + 1,
                   !.fields = Append(@, NewField(variant, gp)),
                   !.scene = (@ \ {host.grass}) \cup {new},
                   !.grass = new]

\* The user finishes changing a blade control: dat.GUI stores the value in
\* grassParams and calls recreateGrass (main.js 111-122).
GuiBladeChange ==
    /\ host.pc = "idle"
    /\ host.events < MaxEvents
    /\ \E k \in BladeControls : \E x \in ControlValues(k) :
          /\ host.grassParams[k] # x
          /\ RecreateGrass([host.grassParams EXCEPT ![k] = x])
    /\ UNCHANGED <<variant, fieldVars, blade, build, shader>>

\* The user changes a colour: recreateGrass as well (main.js 139-144).
GuiColorChange ==
    /\ host.pc = "idle"
    /\ host.events < MaxEvents
    /\ \E k \in ColorControls : \E x \in ControlValues(k) :
          /\ host.grassParams[k] # x
          /\ RecreateGrass([host.grassParams EXCEPT ![k] = x])
    /\ UNCHANGED <<variant, fieldVars, blade, build, shader>>

\* The user changes a wind control: dat.GUI stores the value in grassParams
\* and calls App.updateWind (main.js 127-135, 160-181), which calls
\* this.grass.updateWind(this.time, {...}).
GuiWindChange ==
    /\ host.pc = "idle"
    /\ host.events < MaxEvents
    /\ \E k \in WindControls : \E x \in ControlValues(k), r \in RandomOutcomes :
          /\ host.grassParams[k] # x
          /\ LET gp == [host.grassParams EXCEPT ![k] = x]
             IN host' = [host EXCEPT
                            !.grassParams = gp,
                            !.events = @ + 1,
                            !.fields[host.grass] =
                                FieldUpdateWind(variant, @, host.time,
                                                HandlerOptions(gp), r, "gui")]
    /\ UNCHANGED <<variant, fieldVars, blade, build, shader>>

\* animate, first part (main.js 186-189): the next frame is requested and
\* this.time = clock.getElapsedTime().  The first call is app.animate() of
\* main.js 226.
AnimateTime ==
    /\ host.pc \in {"start", "idle"}
    /\ host.frames < MaxFrames
    /\ \E tick \in Ticks :
          host' = [host EXCEPT !.pc = "update", !.frames = @ + 1,
                               !.time = @ + tick]
    /\ UNCHANGED <<variant, fieldVars, blade, build, shader>>

\* An animate that updates the field with the previous frame's time.
AnimateUpdateWindLate ==
    /\ host.pc = "update"
    /\ \E r \in RandomOutcomes :
          host' = [host EXCEPT
                      !.pc = "render",
                      !.fields[host.grass] =
                          FieldUpdateWind(variant, @, host.fields[host.grass].uniforms.uTime,
                                          host.grassParams, r, "frame")]
    /\ UNCHANGED <<variant, fieldVars, blade, build, shader>>

\* animate, second part (main.js 192): this.grass.updateWind(this.time,
\* this.grassParams).  grassParams holds microMovement and wavePropagation,
\* so the call returns.
AnimateUpdateWind ==
    /\ host.pc = "update"
    /\ \E r \in RandomOutcomes :
          host' = [host EXCEPT
                      !.pc = IF UpdateWindThrows(variant, host.grassParams)
                             THEN "idle" ELSE "render",
                      !.fields[host.grass] =
                          FieldUpdateWind(variant, @, host.time,
                                          host.grassParams, r, "frame")]
    /\ UNCHANGED <<variant, fieldVars, blade, build, shader>>

\* animate, last part (main.js 195-204): renderer.render draws the fields
\* of the scene; the shader reads their uniforms.
AnimateRender ==
    /\ host.pc = "render"
    /\ host' = [host EXCEPT
                   !.pc = "idle",
                   !.drawn = {<<f, host.fields[f].uniforms.uTime>> : f \in host.scene},
                   !.drawnTime = host.time,
                   !.fields = [f \in DOMAIN host.fields |->
                                  IF f \in host.scene
                                  THEN [host.fields[f] EXCEPT !.updates = 0]
                                  ELSE host.fields[f]]]
    /\ UNCHANGED <<variant, fieldVars, blade, build, shader>>

NextHost ==
    \/ AnimateTime
    \/ AnimateUpdateWind
    \/ AnimateRender
    \/ GuiBladeChange
    \/ GuiColorChange
    \/ GuiWindChange

SpecHost == InitHost /\ [][NextHost]_vars

(***************************************************************************)
(* The claims about the blade geometry builder (SpecBlade).                *)
(***************************************************************************)
\* The blade is built: both buffers exist.
BladeBuilt == blade.pc = "done"

\* The number of vertices in the position buffer.
VertexCount == Length(blade.vertices) \div 3

\* The y coordinate of vertex i.
VertexY(i) == blade.vertices[(i * 3) + 1]

\* C4 (as claimed): for every vertexCount >= 3 every index that
\* generateBladeIndices produces is one of 0 .. n-1, n being the number of
\* vertices generateBladeVertices produced for the same vertexCount, in the
\* triangle fan builder and in the two-row strip builder alike.
C4_IndicesValid ==
    (BladeBuilt /\ blade.verticesCount >= 3) =>
        \A j \in DOMAIN blade.indices : blade.indices[j] \in 0 .. (VertexCount - 1)

\* C5: for every vertexCount >= 3, height > 0 and variation in [0, 1) the
\* blade of the full variant has exactly vertexCount vertices, its base at
\* y = 0, its tip at a y within height * (1 -+ variation / 2), no middle
\* vertex above the tip, and a fan of vertexCount - 2 triangles, triangle i
\* being (0, i+1, i+2); height 15, variation 0.4 and three vertices give
\* 3 vertices, 1 triangle and a tip within [12, 18].
C5_BladeShape ==
    (BladeBuilt /\ variant = "full" /\ blade.verticesCount >= 3 /\ blade.height > 0) =>
        LET n == blade.verticesCount
            tip == VertexY(n - 1)
        IN /\ VertexCount = n
           /\ VertexY(0) = 0
           /\ tip >= Mul(blade.height, Scale - (blade.variation \div 2))
           /\ tip <= Mul(blade.height, Scale + (blade.variation \div 2))
           /\ \A i \in 1 .. (n - 2) : VertexY(i) <= tip
           /\ Length(blade.indices) = (n - 2) * 3
           /\ \A i \in 0 .. (n - 3) :
                 /\ blade.indices[i * 3] = 0
                 /\ blade.indices[(i * 3) + 1] = i + 1
                 /\ blade.indices[(i * 3) + 2] = i + 2
           /\ (blade.height = 15000 /\ blade.variation = 400 /\ n = 3) =>
                 /\ VertexCount = 3
                 /\ Length(blade.indices) = 3
                 /\ tip >= 12000 /\ tip <= 18000

\* C5's case is reached: a built fan blade with middle vertices, taller
\* than its mean height.
C5_Witness ==
    /\ BladeBuilt /\ variant = "full"
    /\ blade.verticesCount >= 4 /\ blade.variation > 0
    /\ VertexY(blade.verticesCount - 1) > blade.height
    /\ VertexY(1) > 0

(***************************************************************************)
(* The claims about createGrassMesh (SpecBuild).                           *)
(***************************************************************************)
\* createGrassMesh returned a field.
FieldReturned == build.pc = "done"

\* A bad configuration, as the specification lists it.
BadConfiguration ==
    build.values.grassBlades <= 0 \/ build.values.verticesPerBlade < 3

\* C3 (as claimed): building a field with an instance count <= 0 or fewer
\* than 3 vertices a blade is rejected with an error, and no field is
\* returned.
C3_BadConfigurationRejected ==
    (build.pc # "none" /\ BadConfiguration) => ~FieldReturned

\* C6: for every instance count N >= 1 and patch size S createGrassMesh
\* produces exactly N instances (N transforms and, in the full variant, N
\* heights, N stiffness values and N phase offsets), every position has
\* y = 0 and x, z within [-S/2, S/2], every stiffness is within [0.7, 1.3]
\* and every phase offset within [0, 2 pi), whatever Math.random() returns.
C6_InstancesPacked ==
    (FieldReturned /\ build.values.grassBlades >= 1) =>
        LET n == build.values.grassBlades
            half == build.values.grassPatchSize \div 2
        IN /\ build.count = n
           /\ DOMAIN build.positions = 0 .. (n - 1)
           /\ \A i \in DOMAIN build.positions :
                 /\ build.positions[i][2] = 0
                 /\ build.positions[i][1] >= 0 - half /\ build.positions[i][1] <= half
                 /\ build.positions[i][3] >= 0 - half /\ build.positions[i][3] <= half
           /\ variant = "full" =>
                 /\ DOMAIN build.instanceBladeHeights = 0 .. (n - 1)
                 /\ DOMAIN build.instanceBladeStiffness = 0 .. (n - 1)
                 /\ DOMAIN build.instancePhaseOffsets = 0 .. (n - 1)
                 /\ \A i \in 0 .. (n - 1) :
                       /\ build.instanceBladeStiffness[i] >= 700
                       /\ build.instanceBladeStiffness[i] <= 1300
                       /\ build.instancePhaseOffsets[i] >= 0
                       /\ build.instancePhaseOffsets[i] < TwoPI

\* C6's case is reached: a returned full field of two instances or more,
\* one at the patch's edge, with the stiffest and the most flexible blade.
C6_Witness ==
    /\ FieldReturned /\ variant = "full" /\ build.values.grassBlades >= 2
    /\ build.positions[0][1] = 0 - (build.values.grassPatchSize \div 2)
    /\ build.instanceBladeStiffness[0] = 700
    /\ build.instanceBladeStiffness[1] > 1290
    /\ build.instancePhaseOffsets[1] > 6000

(***************************************************************************)
(* The claims about updateWind and the draw (Spec).                        *)
(***************************************************************************)
\* The step is an updateWind call that returned.
Updated == call'.made /\ ~call'.threw /\ draws' = 0

\* The wind parameters the latest call's options omit.
Omitted(c) == KeysRead(variant) \ DOMAIN c.options

\* C1 (as claimed): after updateWind(time, opts), every wind parameter that
\* opts omits keeps, in its uniform, the value it had right before the call.
C1_OmittedKeepValue ==
    [][Updated =>
          \A k \in Omitted(call') : uniforms'[UniformOf(k)] = uniforms[UniformOf(k)]]_vars

\* C2 (as claimed): updateWind(time, opts) returns without an error for
\* every subset of the parameters in opts, and leaves uTime at the time
\* supplied.
C2_UpdateSafe ==
    call.made => (~call.threw /\ uniforms.uTime = call.time)

\* C8: after updateWind(t, p) with every wind parameter in p, uTime is t
\* and every wind uniform holds p's value, whatever calls came before.
C8_FullUpdateOverwrites ==
    (call.made /\ ~call.threw /\ Omitted(call) = {}) =>
        /\ uniforms.uTime = call.time
        /\ \A k \in KeysRead(variant) : uniforms[UniformOf(k)] = call.options[k]

\* C8's case is reached: a full update, after an earlier update that
\* returned, of a field whose build values differ from what it supplied.
C8_Witness ==
    /\ call.made /\ ~call.threw /\ Omitted(call) = {}
    /\ call.earlier
    /\ variant = "full"
    /\ call.time = 2000
    /\ closure.windSpeed # call.options.windSpeed
    /\ closure.microMovement # call.options.microMovement
    /\ closure.windGustFrequency # call.options.gustFrequency

\* C9: uWindNoiseFactor is within [0.5, 1.0] in every state from the build
\* on, and only an updateWind call changes it: a draw leaves it as it is.
C9_NoiseFactorStable ==
    /\ [](uniforms.uWindNoiseFactor >= Scale \div 2 /\ uniforms.uWindNoiseFactor <= Scale)
    /\ [][/\ (uniforms'.uWindNoiseFactor # uniforms.uWindNoiseFactor) => Updated
          /\ Draw => (uniforms'.uWindNoiseFactor = uniforms.uWindNoiseFactor)]_vars

\* C9's case is reached: two draws after an update that drew a noise factor.
C9_Witness ==
    /\ call.made /\ ~call.threw
    /\ draws >= 2
    /\ uniforms.uWindNoiseFactor < Scale

(***************************************************************************)
(* The claims about the wind animation model (SpecShader).                 *)
(***************************************************************************)
\* The shader has run for the vertex.
ShaderRan == shader.pc \in {"done", "paired"}

\* The vertex is the blade's base, of an instance of positive height.
BaseVertex == shader.input.position[2] = 0 /\ shader.input.aBladeHeight > 0

\* The wind direction of the WindState has zero length.
ZeroWindDirection == shader.input.u.uWindDirection = <<0, 0, 0>>

\* C7 (as claimed): for every instance height > 0, stiffness, phase and
\* wind state, with either exponent, a vertex with local y = 0 gets
\* heightFactor 0, sway 0 and zero wind displacement in x, y and z.
C7_BaseNeverSways ==
    (ShaderRan /\ BaseVertex) =>
        /\ IsZero(shader.out.heightFactor)
        /\ IsZero(shader.out.sway)
        /\ IsZero(shader.out.dx) /\ IsZero(shader.out.dy) /\ IsZero(shader.out.dz)

\* C7, away from C10's case: with a wind direction of non-zero length the
\* base vertex gets heightFactor 0, sway 0 and no displacement.
C7_BaseStillUnderWind ==
    (ShaderRan /\ BaseVertex /\ ~ZeroWindDirection) =>
        /\ IsZero(shader.out.heightFactor)
        /\ IsZero(shader.out.sway)
        /\ IsZero(shader.out.dx) /\ IsZero(shader.out.dy) /\ IsZero(shader.out.dz)

\* C10 (as claimed): with a wind direction of zero length every vertex gets
\* zero horizontal displacement, and nothing the shader computes is NaN.
C10_ZeroDirectionNoDisplacement ==
    (ShaderRan /\ ZeroWindDirection) =>
        /\ IsZero(shader.out.dx) /\ IsZero(shader.out.dz)
        /\ ~IsNaN(shader.out.sway) /\ ~IsNaN(shader.out.dy)

\* The instance, or the base blade of the field, has height 0.
ZeroHeight == shader.input.aBladeHeight = 0 \/ shader.input.u.uBladeHeight = 0

\* C11 (as claimed): when the instance height or the base blade height is
\* 0, the shader's heightFactor is a number: no division by zero makes it
\* NaN or infinite.
C11_HeightGuarded ==
    (ShaderRan /\ ZeroHeight) => shader.out.heightFactor.k = "num"

\* The shader ran for the vertex on two instances differing only in
\* stiffness, in the variant that has a stiffness.
StiffnessPaired == shader.pc = "paired" /\ variant = "full"

Sway07 == IF shader.input.aStiffness = 700 THEN shader.out.sway ELSE shader.other.sway

Sway13 == IF shader.input.aStiffness = 1300 THEN shader.out.sway ELSE shader.other.sway

StrictlyGreaterMagnitude(a, b) ==
    a.k = "num" /\ b.k = "num" /\ Abs(a.v) > Abs(b.v)

\* C12 (as claimed): for every vertex, instance and wind state, |sway| at
\* stiffness 0.7 is strictly greater than |sway| at stiffness 1.3.
C12_SofterSwaysMore ==
    StiffnessPaired => StrictlyGreaterMagnitude(Sway07, Sway13)

\* C12 (amended): |sway| at stiffness 0.7 is strictly greater than at
\* stiffness 1.3 whenever the sway at stiffness 1.3 is a non-zero number;
\* otherwise (a base vertex, wind intensity 0, a wind signal of 0, or a
\* NaN height factor) the two sways are the same, 0 or NaN.
C12_SofterSwaysMoreWhenSwaying ==
    StiffnessPaired =>
        IF Sway13.k = "num" /\ Sway13.v # 0
        THEN StrictlyGreaterMagnitude(Sway07, Sway13)
        ELSE Sway07 = Sway13

C12_Witness ==
    /\ StiffnessPaired
    /\ Sway13.k = "num" /\ Sway13.v # 0
    /\ StrictlyGreaterMagnitude(Sway07, Sway13)

\* The fields the host has built, and the field this.grass refers to.
Fields == DOMAIN host.fields

Grass == host.fields[host.grass]

\* C13 (as claimed): no field has updateWind invoked on it more than once
\* between two consecutive draws (or between its build and its first draw).
C13_OneUpdatePerFrame ==
    \A f \in Fields : host.fields[f].updates <= 1

\* A frame's render has drawn the field built by a rebuild.
DrawnAfterRebuild == \E p \in host.drawn : p[1] > 1

\* C14: every draw draws this.grass with the uTime read in the same frame,
\* a frame's update comes before its draw, and the draw leaves every
\* field's WindState as it was; also after a rebuild between frames.
C14_UpdateThenDraw ==
    /\ [](/\ \A p \in host.drawn : p[2] = host.drawnTime
          /\ host.pc = "render" =>
                /\ host.scene = {host.grass}
                /\ Grass.uniforms.uTime = host.time
                /\ Grass.writer = "frame")
    /\ [][host.pc = "render" =>
             \A f \in Fields : host'.fields[f].uniforms = host.fields[f].uniforms]_vars

C14_Witness ==
    /\ host.pc = "idle"
    /\ DrawnAfterRebuild
    /\ host.drawn = {<<host.grass, host.time>>}
    /\ host.frames > 1

\* The blade shape and instance count a field was built with.
ShapeKeys == {"bladeHeight", "bladeHeightVariation", "bladeWidth", "grassBlades"}

Shape(b) == [k \in ShapeKeys \cap DOMAIN b |-> b[k]]

\* C15 (as claimed): the scene holds exactly one field, this.grass refers
\* to it, it is the field built last and it was built from the current
\* grassParams.
C15_OneCurrentField ==
    /\ host.scene = {host.grass}
    /\ host.grass = Len(host.fields)
    /\ Shape(Grass.closure) = Shape(BuildValues(variant, host.grassParams))

\* C15, the part that holds in both variants: the scene holds exactly the
\* field built last, this.grass refers to it, a field built by a rebuild was
\* built from the grassParams of the rebuild, and a discarded field is
\* never updated again.
C15_OneFieldInScene ==
    /\ [](/\ host.scene = {host.grass}
          /\ host.grass = Len(host.fields)
          /\ host.grass > 1 =>
                Shape(Grass.closure) = Shape(BuildValues(variant, host.grassParams)))
    /\ [][\A f \in Fields \ host.scene : host'.fields[f] = host.fields[f]]_vars

\* The WindState without the elapsed time and the random noise factor.
WindOf(u) == [k \in DOMAIN u \ {"uTime", "uWindNoiseFactor"} |-> u[k]]

\* C16: a frame's update that follows a GUI wind handler's update writes
\* the wind values the handler wrote (the elapsed time and the noise
\* factor aside).
C16_UpdatePathsAgree ==
    [][(host.pc = "update" /\ Grass.writer = "gui") =>
          WindOf(host'.fields[host.grass].uniforms) = WindOf(Grass.uniforms)]_vars

C16_Witness ==
    /\ Grass.overGui
    /\ Grass.uniforms.uWindSpeed = 5000
    /\ host.grassParams.windSpeed # GrassParams0.windSpeed

=============================================================================
